---- MODULE Spec2Model ----
(***************************************************************************)
(* A model of the fixed-pool memory allocator of memmanager.c: the region  *)
(* table, MemAddRegion/MemInit, MemAlloc (first fit, tail split), MemFree  *)
(* (address-ordered insertion with coalescing) and MemStatistics.          *)
(*                                                                         *)
(* Memory is a map from byte addresses of header-sized cells to the fields *)
(* of a HEADER stored there.  Every cell of a heap area holds some word:   *)
(* a current block header, a stale header, or whatever the caller's buffer *)
(* held before it was registered.  Pointer arithmetic "p + n" on HEADER*   *)
(* is p + n*H on byte addresses.                                           *)
(***************************************************************************)
EXTENDS Integers, FiniteSets, Sequences, TLC

\* sizeof(HEADER): one 32-bit word of bit-fields, padding, one pointer.
H == 16
\* Number of slots of the region table (the header's region field has 2 bits).
NRegions == 4
\* Width of the header's size bit-field.
SizeBits == 29
\* Sentinel of MemStatistics for "no block seen yet".
MAXBYTES == 1000000
\* The null pointer.
NULL == 0

\* Bounds of the model: the heap areas the caller owns (AreaA for a program
\* with one region, AreaB and AreaC for a program with two), the slack bytes
\* of AreaB (its size is not a multiple of H), and the requests.
CellsA == 6
CellsB == 4
CellsC == 3
Slack == 8
ReqStep == 12
MaxReq == 3

\* Largest byte count of the program that asks for every count from 0 up.
MaxBytes == 20

SizeMod == 2 ^ SizeBits

\* A heap area handed to MemAddRegion: base address and size in bytes.
AreaA == [base |-> H, bytes |-> CellsA * H]
AreaB == [base |-> H * (CellsA + 2), bytes |-> (CellsB - 1) * H + Slack]
AreaC == [base |-> H * (CellsA + CellsB + 2), bytes |-> CellsC * H]
Areas == {AreaA, AreaB, AreaC}

\* Addresses of the header-sized cells that start inside an area.
AreaCells(a) == {a.base + k * H : k \in 0 .. ((a.bytes + H - 1) \div H) - 1}
Cells == UNION {AreaCells(a) : a \in Areas}

\* A pointer value that is no cell and not NULL (all bits set).
Wild == H * (CellsA + CellsB + CellsC + 4) + 1

\* Contents an area may hold before registration: zeroes (a static buffer)
\* or a junk word with every field set.
ZeroCell == [used |-> FALSE, region |-> 0, size |-> 0, next |-> NULL]
JunkCell == [used |-> TRUE, region |-> NRegions - 1, size |-> 2, next |-> Wild]
Fills == {ZeroCell, JunkCell}

\* Byte counts the caller asks MemAlloc for.
Requests == {k * ReqStep : k \in 0 .. MaxReq}
\* Region ids the caller passes to MemAddRegion and MemAlloc.
CallerRegions == {0, 1}

VARIABLES
    mem,        \* [Cells -> HEADER fields]: the words of the heap areas
    Regions,    \* [0..NRegions-1 -> REGION]: the region table
    live,       \* pointers returned by MemAlloc and not yet passed to MemFree
    last,       \* the last call: its name, the pointer it returned or was given
    pc          \* "run", or how the program stopped: "fault", "hang"

vars == <<mem, Regions, live, last, pc>>

NoRegion == [start |-> NULL, end |-> NULL, free |-> NULL, memleft |-> 0]

Init ==
    /\ \E fill \in Fills : mem = [c \in Cells |-> fill]
    /\ Regions = [g \in 0 .. NRegions - 1 |-> NoRegion]
    /\ live = {}
    /\ last = [op |-> "none", ptr |-> NULL]
    /\ pc = "run"

----------------------------------------------------------------------------
\* MemAddRegion( region, area, size )

\* Faulty variant: the free block spans size/sizeof(HEADER) units, without the -1.
MemAddRegionState_WholeArea(m, R, region, area, size) ==
    IF R[region].start # NULL
    THEN [mem |-> m, Regions |-> R]
    ELSE LET m1 == [m EXCEPT ![area].next = NULL,
                             ![area].size = (size \div H) % SizeMod,
                             ![area].used = FALSE]
         IN  [mem |-> m1,
              Regions |-> [R EXCEPT ![region] =
                            [start |-> area, end |-> area + size,
                             free |-> area, memleft |-> m1[area].size]]]

\* Faulty variant: a registered slot is installed again over the new area.
MemAddRegionState_Reinstalls(m, R, region, area, size) ==
    LET units == (size \div H) - 1
        m1 == [m EXCEPT ![area].next = NULL,
                        ![area].size = units % SizeMod,
                        ![area].used = FALSE]
    IN  [mem |-> m1,
         Regions |-> [R EXCEPT ![region] =
                       [start |-> area, end |-> area + size,
                        free |-> area, memleft |-> m1[area].size]]]

\* Faulty variant: the used flag of the word at area is left as the buffer
\* held it.
MemAddRegionState_KeepsUsed(m, R, region, area, size) ==
    IF R[region].start # NULL
    THEN [mem |-> m, Regions |-> R]
    ELSE LET units == (size \div H) - 1
             m1 == [m EXCEPT ![area].next = NULL,
                             ![area].size = units % SizeMod]
         IN  [mem |-> m1,
              Regions |-> [R EXCEPT ![region] =
                            [start |-> area, end |-> area + size,
                             free |-> area, memleft |-> m1[area].size]]]

MemAddRegionState(m, R, region, area, size) ==
    IF R[region].start # NULL
    THEN [mem |-> m, Regions |-> R]
    ELSE LET units == (size \div H) - 1
             m1 == [m EXCEPT ![area].next = NULL,
                             ![area].size = units % SizeMod,
                             ![area].used = FALSE]
         IN  [mem |-> m1,
              Regions |-> [R EXCEPT ![region] =
                            [start |-> area, end |-> area + size,
                             free |-> area, memleft |-> m1[area].size]]]

\* The caller hands over an area that no registered region already uses,
\* unless the slot is taken and the call is ignored anyway.
AreaIsFree(a) ==
    \A g \in 0 .. NRegions - 1 : Regions[g].start # a.base

MemAddRegion(region, a) ==
    /\ pc = "run"
    /\ Regions[region].start # NULL \/ AreaIsFree(a)
    /\ LET s == MemAddRegionState(mem, Regions, region, a.base, a.bytes)
       IN  /\ mem' = s.mem
           /\ Regions' = s.Regions
    /\ last' = [op |-> "MemAddRegion", ptr |-> NULL]
    /\ UNCHANGED <<live, pc>>

----------------------------------------------------------------------------
\* MemInit( area, size )

MemInit(a) ==
    /\ pc = "run"
    /\ Regions[0].start # NULL \/ AreaIsFree(a)
    /\ LET s == MemAddRegionState(mem, Regions, 0, a.base, a.bytes)
       IN  /\ mem' = s.mem
           /\ Regions' = s.Regions
    /\ last' = [op |-> "MemInit", ptr |-> NULL]
    /\ UNCHANGED <<live, pc>>

----------------------------------------------------------------------------
\* MemAlloc( nb, region )

\* Faulty variant: the byte count is divided without rounding up first.
Nelems_Truncating(nb) == (nb \div H) + 1

\* Round to a multiple of sizeof(HEADER), plus one unit for the header.
Nelems(nb) == ((nb + H - 1) \div H) + 1

\* A walk of more steps than there are cells has met a cell twice: the
\* list is cyclic and the loop never ends.
Fuel == Cardinality(Cells)

RECURSIVE AllocScanExact(_, _, _, _)
AllocScanExact(m, block, nelems, fuel) ==
    IF block = NULL \/ block \notin Cells \/ fuel = 0
    THEN [kind |-> "none", block |-> NULL]
    ELSE IF nelems = m[block].size THEN [kind |-> "found", block |-> block]
    ELSE AllocScanExact(m, m[block].next, nelems, fuel - 1)

RECURSIVE AllocScanFirst(_, _, _, _)
AllocScanFirst(m, block, nelems, fuel) ==
    IF block = NULL THEN [kind |-> "none", block |-> NULL]
    ELSE IF block \notin Cells THEN [kind |-> "fault", block |-> block]
    ELSE IF fuel = 0 THEN [kind |-> "hang", block |-> block]
    ELSE IF nelems <= m[block].size THEN [kind |-> "found", block |-> block]
    ELSE AllocScanFirst(m, m[block].next, nelems, fuel - 1)

RECURSIVE AllocScan_NoNullTest(_, _, _, _)
\* Faulty variant: the head of the list is read before it is tested for NULL.
AllocScan_NoNullTest(m, block, nelems, fuel) ==
    IF block \notin Cells THEN [kind |-> "fault", block |-> block]
    ELSE IF fuel = 0 THEN [kind |-> "hang", block |-> block]
    ELSE IF nelems <= m[block].size THEN [kind |-> "found", block |-> block]
    ELSE IF m[block].next = NULL THEN [kind |-> "none", block |-> NULL]
    ELSE AllocScan_NoNullTest(m, m[block].next, nelems, fuel - 1)

\* Faulty variant: a node of exactly nelems units is preferred to an earlier,
\* larger one.
AllocScan_PreferExact(m, block, nelems, fuel) ==
    IF AllocScanExact(m, block, nelems, fuel).kind = "found"
    THEN AllocScanExact(m, block, nelems, fuel)
    ELSE AllocScanFirst(m, block, nelems, fuel)

RECURSIVE AllocScan(_, _, _, _)
\* The for loop of MemAlloc from `block` on: the first block of the free
\* list with nelems <= size ("found"), or the end of the list ("none").
AllocScan(m, block, nelems, fuel) ==
    IF block = NULL THEN [kind |-> "none", block |-> NULL]
    ELSE IF block \notin Cells THEN [kind |-> "fault", block |-> block]
    ELSE IF fuel = 0 THEN [kind |-> "hang", block |-> block]
    ELSE IF nelems <= m[block].size THEN [kind |-> "found", block |-> block]
    ELSE AllocScan(m, m[block].next, nelems, fuel - 1)

\* Faulty variant: block is not advanced past the part it keeps, so the header
\* of the block returned overwrites the header of the free node.
AllocSplit_NoAdvance(m, block, nelems) ==
    [kind |-> "ok",
     mem |-> [m EXCEPT ![block].size = nelems % SizeMod,
                       ![block].used = TRUE,
                       ![block].next = NULL],
     block |-> block]

\* Faulty variant: the free node keeps its size, so it still covers the upper
\* units handed out.
AllocSplit_NoShrink(m, block, nelems) ==
    LET m1 == [m EXCEPT ![block].used = FALSE,
                        ![block].next = NULL]
        nb == block + ((m[block].size - nelems) % SizeMod) * H
    IN  IF nb \notin Cells
        THEN [kind |-> "fault", mem |-> m1, block |-> nb]
        ELSE [kind |-> "ok",
              mem |-> [m1 EXCEPT ![nb].size = nelems % SizeMod,
                                 ![nb].used = TRUE],
              block |-> nb]

\* nelems < block->size: the block keeps its lower part, the upper nelems
\* units become the block to return.  Only size and used of the new header
\* are written; its region bits and next stay what the word held.
AllocSplit(m, block, nelems) ==
    LET m1 == [m EXCEPT ![block].size = (m[block].size - nelems) % SizeMod,
                        ![block].used = FALSE,
                        ![block].next = NULL]
        nb == block + m1[block].size * H
    IN  IF nb \notin Cells
        THEN [kind |-> "fault", mem |-> m1, block |-> nb]
        ELSE [kind |-> "ok",
              mem |-> [m1 EXCEPT ![nb].size = nelems % SizeMod,
                                 ![nb].used = TRUE],
              block |-> nb]

\* nelems == block->size: the block leaves the list.  prev is set to NULL
\* when the loop starts and never advanced, so the region's head is
\* replaced whatever the position of the block.
AllocUnlink(m, R, region, block) ==
    [R EXCEPT ![region].free = m[block].next]

\* Faulty variant: memleft is charged before the search, also when it fails.
MemAllocResult_ChargesFailure(m, R, nb, region) ==
    LET nelems == Nelems(nb)
        scan == AllocScan(m, R[region].free, nelems, Fuel)
        Rc == [R EXCEPT ![region].memleft = @ - nelems]
    IN  IF scan.kind # "found"
        THEN [kind |-> scan.kind, mem |-> m, Regions |-> Rc, ret |-> NULL]
        ELSE LET block == scan.block IN
             IF nelems < m[block].size
             THEN LET sp == AllocSplit(m, block, nelems)
                  IN  IF sp.kind = "fault"
                      THEN [kind |-> "fault", mem |-> sp.mem, Regions |-> R, ret |-> NULL]
                      ELSE [kind |-> "found", mem |-> sp.mem, Regions |-> Rc,
                            ret |-> sp.block + H]
             ELSE [kind |-> "found", mem |-> m,
                   Regions |-> [AllocUnlink(m, R, region, block)
                                  EXCEPT ![region].memleft = @ - nelems],
                   ret |-> block + H]

MemAllocResult(m, R, nb, region) ==
    LET nelems == Nelems(nb)
        scan == AllocScan(m, R[region].free, nelems, Fuel)
    IN  IF scan.kind # "found"
        THEN [kind |-> scan.kind, mem |-> m, Regions |-> R, ret |-> NULL]
        ELSE LET block == scan.block IN
             IF nelems < m[block].size
             THEN LET sp == AllocSplit(m, block, nelems)
                  IN  IF sp.kind = "fault"
                      THEN [kind |-> "fault", mem |-> sp.mem, Regions |-> R, ret |-> NULL]
                      ELSE [kind |-> "found", mem |-> sp.mem,
                            Regions |-> [R EXCEPT ![region].memleft = @ - nelems],
                            ret |-> sp.block + H]
             ELSE LET R1 == AllocUnlink(m, R, region, block)
                  IN  [kind |-> "found", mem |-> m,
                       Regions |-> [R1 EXCEPT ![region].memleft = @ - nelems],
                       ret |-> block + H]

MemAlloc(nb, region) ==
    /\ pc = "run"
    /\ LET res == MemAllocResult(mem, Regions, nb, region)
       IN  /\ mem' = res.mem
           /\ Regions' = res.Regions
           /\ pc' = IF res.kind \in {"fault", "hang"} THEN res.kind ELSE "run"
           /\ live' = IF res.ret = NULL THEN live
                      ELSE live \cup {[p |-> res.ret, region |-> region,
                                       nelems |-> Nelems(nb)]}
           /\ last' = [op |-> "MemAlloc", ptr |-> res.ret]

----------------------------------------------------------------------------
\* MemFree( p )


RECURSIVE FreeWalk(_, _, _, _, _)
\* The for loop of MemFree: walks the list while block && block < f.
\* "merge": block + block->size == f; "insert": the loop ended, with the
\* last block passed in prev (NULL when the body never got to prev=block:
\* part_001 sets prev = NULL before the loop, memmanager.c leaves it
\* unassigned).
FreeWalk(m, block, prev, f, fuel) ==
    IF block = NULL \/ ~(block < f)
    THEN [kind |-> "insert", block |-> block, prev |-> prev]
    ELSE IF block \notin Cells THEN [kind |-> "fault", block |-> block, prev |-> prev]
    ELSE IF fuel = 0 THEN [kind |-> "hang", block |-> block, prev |-> prev]
    ELSE IF block + m[block].size * H = f
    THEN [kind |-> "merge", block |-> block, prev |-> prev]
    ELSE FreeWalk(m, m[block].next, block, f, fuel - 1)

\* f < r->free: f is the new head; it absorbs the old head when contiguous.
\* The set of outcomes has one element, or a fault.
FreeHead(m, R, g, f) ==
    LET old == R[g].free
        R1 == [R EXCEPT ![g].free = f]
        nxt == f + m[f].size * H
    IN  IF nxt = old
        THEN IF old \notin Cells
             THEN {[kind |-> "fault", mem |-> m, Regions |-> R1]}
             ELSE {[kind |-> "ok",
                    mem |-> [m EXCEPT ![f].size = (m[f].size + m[old].size) % SizeMod,
                                      ![f].next = m[old].next,
                                      ![f].used = FALSE],
                    Regions |-> R1]}
        ELSE {[kind |-> "ok",
               mem |-> [m EXCEPT ![f].next = old, ![f].used = FALSE],
               Regions |-> R1]}

\* block + block->size == f: block grows by f, then by its successor when
\* it now touches it.  The header at f itself is not written.
FreeMerge(m, R, block, f) ==
    LET m1 == [m EXCEPT ![block].size = (m[block].size + m[f].size) % SizeMod]
        f2 == block + m1[block].size * H
    IN  IF f2 = m1[block].next
        THEN IF f2 \notin Cells
             THEN {[kind |-> "fault", mem |-> m1, Regions |-> R]}
             ELSE {[kind |-> "ok",
                    mem |-> [m1 EXCEPT ![block].size = (m1[block].size + m1[f2].size) % SizeMod,
                                       ![block].next = m1[f2].next,
                                       ![block].used = FALSE],
                    Regions |-> R]}
        ELSE {[kind |-> "ok", mem |-> m1, Regions |-> R]}

\* Faulty variant: f is linked in front of block without the test for contiguity.
FreeLink_NoCoalesce(m, R, block, f) ==
    [kind |-> "ok",
     mem |-> [m EXCEPT ![f].next = block, ![f].used = FALSE],
     Regions |-> R]

\* Faulty variant: f is linked to itself.
FreeLink_SelfLink(m, R, block, f) ==
    [kind |-> "ok",
     mem |-> [m EXCEPT ![f].next = f, ![f].used = FALSE],
     Regions |-> R]

\* After the store prev->next = f: f is linked in front of block, and
\* absorbs it when contiguous.
FreeLink(m, R, block, f) ==
    LET nxt == f + m[f].size * H
    IN  IF nxt = block
        THEN IF block \notin Cells
             THEN [kind |-> "fault", mem |-> m, Regions |-> R]
             ELSE [kind |-> "ok",
                   mem |-> [m EXCEPT ![f].size = (m[f].size + m[block].size) % SizeMod,
                                     ![f].next = m[block].next,
                                     ![f].used = FALSE],
                   Regions |-> R]
        ELSE [kind |-> "ok",
              mem |-> [m EXCEPT ![f].next = block, ![f].used = FALSE],
              Regions |-> R]

\* prev->next = f.  When the list was empty the loop body did not run and
\* the store goes through a null pointer: the program stops there, or the
\* store lands at address 8, outside every heap area, and the call goes on.
FreeInsert(m, R, block, prev, f) ==
    IF prev = NULL
    THEN {[kind |-> "fault", mem |-> m, Regions |-> R], FreeLink(m, R, block, f)}
    ELSE IF prev \notin Cells
    THEN {[kind |-> "fault", mem |-> m, Regions |-> R]}
    ELSE {FreeLink([m EXCEPT ![prev].next = f], R, block, f)}

\* Every outcome of MemFree(p): the state it leaves, and how it ended.
MemFreeOutcomes(m, R, p) ==
    IF p = NULL THEN {[kind |-> "ok", mem |-> m, Regions |-> R]}
    ELSE LET f == p - H IN
    IF f \notin Cells THEN {[kind |-> "fault", mem |-> m, Regions |-> R]}
    ELSE IF ~m[f].used THEN {[kind |-> "ok", mem |-> m, Regions |-> R]}
    ELSE LET g == m[f].region
             R1 == [R EXCEPT ![g].memleft = @ + m[f].size]
         IN  IF f < R[g].free
             THEN FreeHead(m, R1, g, f)
             ELSE LET w == FreeWalk(m, R[g].free, NULL, f, Fuel)
                  IN  CASE w.kind = "merge" -> FreeMerge(m, R1, w.block, f)
                        [] w.kind = "insert" -> FreeInsert(m, R1, w.block, w.prev, f)
                        [] OTHER -> {[kind |-> w.kind, mem |-> m, Regions |-> R1]}

\* MemFree of a pointer MemAlloc returned and the caller still holds.
MemFree(l) ==
    /\ pc = "run"
    /\ l \in live
    /\ \E o \in MemFreeOutcomes(mem, Regions, l.p) :
          /\ mem' = o.mem
          /\ Regions' = o.Regions
          /\ pc' = IF o.kind = "ok" THEN "run" ELSE o.kind
    /\ live' = live \ {l}
    /\ last' = [op |-> "MemFree", ptr |-> l.p]

----------------------------------------------------------------------------
\* MemStatistics( stats, region )

RECURSIVE StatsFreeWalk(_, _, _, _)
\* for(p=r->free;p;p=p->next): counts and extremes of the free list, in units.
StatsFreeWalk(m, p, st, fuel) ==
    IF p = NULL THEN [st EXCEPT !.kind = "ok"]
    ELSE IF p \notin Cells THEN [st EXCEPT !.kind = "fault"]
    ELSE IF fuel = 0 THEN [st EXCEPT !.kind = "hang"]
    ELSE StatsFreeWalk(m, m[p].next,
            [st EXCEPT !.freeblocks = @ + 1,
                       !.freebytes = @ + m[p].size,
                       !.largestfree = IF m[p].size > @ THEN m[p].size ELSE @,
                       !.smallestfree = IF m[p].size < @ THEN m[p].size ELSE @],
            fuel - 1)

RECURSIVE StatsUsedWalk_CountsAll(_, _, _, _)
\* Faulty variant: the walk counts every block, whatever its used flag.
StatsUsedWalk_CountsAll(m, p, end, st) ==
    IF ~(p < end) THEN st
    ELSE IF p \notin Cells THEN [st EXCEPT !.kind = "fault"]
    ELSE IF ~(m[p].size > 0) THEN st
    ELSE StatsUsedWalk_CountsAll(m, p + m[p].size * H, end,
            [st EXCEPT !.usedblocks = @ + 1,
                       !.usedbytes = @ + m[p].size,
                       !.largestused = IF m[p].size > @ THEN m[p].size ELSE @,
                       !.smallestused = IF m[p].size < @ THEN m[p].size ELSE @])

RECURSIVE StatsUsedWalk(_, _, _, _)
\* for(p=r->start;(p < r->end)&&(p->size>0);p=p+p->size): counts and
\* extremes of the blocks marked used, in units.
StatsUsedWalk(m, p, end, st) ==
    IF ~(p < end) THEN st
    ELSE IF p \notin Cells THEN [st EXCEPT !.kind = "fault"]
    ELSE IF ~(m[p].size > 0) THEN st
    ELSE StatsUsedWalk(m, p + m[p].size * H, end,
            IF m[p].used
            THEN [st EXCEPT !.usedblocks = @ + 1,
                            !.usedbytes = @ + m[p].size,
                            !.largestused = IF m[p].size > @ THEN m[p].size ELSE @,
                            !.smallestused = IF m[p].size < @ THEN m[p].size ELSE @]
            ELSE st)

\* What MemStatistics stores in *stats; kind tells how the call ended.
MemStatistics(m, R, region) ==
    LET r == R[region]
        st0 == [kind |-> "ok", memleft |-> r.memleft,
                freeblocks |-> 0, freebytes |-> 0,
                usedblocks |-> 0, usedbytes |-> 0,
                largestused |-> 0, smallestused |-> MAXBYTES,
                largestfree |-> 0, smallestfree |-> MAXBYTES]
    IN  IF r.free = NULL THEN st0
        ELSE LET st1 == StatsFreeWalk(m, r.free, st0, Fuel) IN
             IF st1.kind # "ok" THEN st1
             ELSE LET st2 == StatsUsedWalk(m, r.start, r.end, st1) IN
                  IF st2.kind # "ok" THEN st2
                  ELSE [kind |-> "ok",
                        freeblocks |-> st2.freeblocks,
                        usedblocks |-> st2.usedblocks,
                        freebytes |-> st2.freebytes * H,
                        usedbytes |-> st2.usedbytes * H,
                        largestfree |-> st2.largestfree * H,
                        largestused |-> st2.largestused * H,
                        smallestfree |-> (IF st2.smallestfree = MAXBYTES THEN 0
                                          ELSE st2.smallestfree) * H,
                        smallestused |-> (IF st2.smallestused = MAXBYTES THEN 0
                                          ELSE st2.smallestused) * H,
                        memleft |-> st2.memleft * H]

----------------------------------------------------------------------------
\* MemFree called again on the pointer the previous MemFree call was given.
MemFreeAgain ==
    /\ pc = "run"
    /\ last.op = "MemFree"
    /\ \E o \in MemFreeOutcomes(mem, Regions, last.ptr) :
          /\ mem' = o.mem
          /\ Regions' = o.Regions
          /\ pc' = IF o.kind = "ok" THEN "run" ELSE o.kind
    /\ last' = [op |-> "MemFreeAgain", ptr |-> last.ptr]
    /\ UNCHANGED live

\* The program with one region: MemInit on AreaA, then MemAlloc on region 0
\* and MemFree of what it returned.
Next ==
    \/ MemInit(AreaA)
    \/ \E nb \in Requests : MemAlloc(nb, 0)
    \/ \E l \in live : MemFree(l)

Spec == Init /\ [][Next]_vars

\* The same program, whose caller may also free a pointer twice in a row;
\* the run is followed up to the second of the two calls.
NextDoubleFree ==
    \/ /\ last.op # "MemFreeAgain"
       /\ \/ MemInit(AreaA)
          \/ \E nb \in Requests : MemAlloc(nb, 0)
          \/ \E l \in live : MemFree(l)
    \/ MemFreeAgain

SpecDoubleFree == Init /\ [][NextDoubleFree]_vars

\* The program with two regions on the two small areas.
NextRegions ==
    \/ \E g \in CallerRegions, a \in {AreaB, AreaC} : MemAddRegion(g, a)
    \/ \E nb \in Requests, g \in CallerRegions : MemAlloc(nb, g)
    \/ \E l \in live : MemFree(l)

SpecRegions == Init /\ [][NextRegions]_vars

\* The program with two regions that registers region 0 with MemInit or
\* with MemAddRegion.
NextRegister ==
    \/ \E a \in {AreaB, AreaC} : MemInit(a)
    \/ \E g \in CallerRegions, a \in {AreaB, AreaC} : MemAddRegion(g, a)
    \/ \E nb \in Requests, g \in CallerRegions : MemAlloc(nb, g)
    \/ \E l \in live : MemFree(l)

SpecRegister == Init /\ [][NextRegister]_vars

\* The program with one region that asks for every byte count up to
\* MaxBytes.
ByteCounts == 0 .. MaxBytes

NextBytes ==
    \/ MemInit(AreaA)
    \/ \E nb \in ByteCounts : MemAlloc(nb, 0)
    \/ \E l \in live : MemFree(l)

SpecBytes == Init /\ [][NextBytes]_vars

----------------------------------------------------------------------------
\* Vocabulary of the properties.

RegionIds == 0 .. NRegions - 1
Registered(g) == Regions[g].start # NULL

RECURSIVE ListFrom(_, _, _)
\* The nodes reachable from p through next, in list order.
ListFrom(m, p, fuel) ==
    IF p = NULL \/ p \notin Cells \/ fuel = 0 THEN <<>>
    ELSE <<p>> \o ListFrom(m, m[p].next, fuel - 1)

FreeList(g) == ListFrom(mem, Regions[g].free, Fuel)
FreeNodes(g) == {FreeList(g)[i] : i \in 1 .. Len(FreeList(g))}

RECURSIVE SumSizes(_, _)
SumSizes(m, nodes) ==
    IF nodes = {} THEN 0
    ELSE LET n == CHOOSE x \in nodes : TRUE
         IN  m[n].size + SumSizes(m, nodes \ {n})

\* Units of the free block MemAddRegion installs in a region of `bytes` bytes.
SpanUnits(bytes) == (bytes \div H) - 1
\* The area was all zeroes when it was registered: no call writes the
\* region bits of a word, so they still tell.
ZeroFilled == \A c \in Cells : mem[c].region = ZeroCell.region

----------------------------------------------------------------------------
\* C1: once every pointer MemAlloc returned has been passed to MemFree, the
\* region is as MemInit left it: one free node at start of S/H - 1 units,
\* memleft equal to it, and MemStatistics reporting no used block and
\* S - H free bytes.  (Stated for an area that was all zeroes.)
C1_RoundTripRestoresRegion ==
    (pc = "run" /\ Registered(0) /\ live = {} /\ ZeroFilled) =>
        LET st == MemStatistics(mem, Regions, 0)
        IN  /\ FreeList(0) = <<Regions[0].start>>
            /\ mem[Regions[0].start].size = SpanUnits(AreaA.bytes)
            /\ Regions[0].memleft = SpanUnits(AreaA.bytes)
            /\ st.usedblocks = 0
            /\ st.freebytes = AreaA.bytes - H

\* C2: memleft equals the sum of the sizes of the nodes reachable from
\* free, and MemStatistics reports memleft == freebytes.
C2_MemleftIsFreeListSum ==
    \A g \in RegionIds :
        (pc = "run" /\ Registered(g) /\ ZeroFilled) =>
            /\ Regions[g].memleft = SumSizes(mem, FreeNodes(g))
            /\ MemStatistics(mem, Regions, g).memleft
                 = MemStatistics(mem, Regions, g).freebytes

\* C3: MemFree(p) again right after MemFree(p) changes nothing.
C3_DoubleFreeIsNoop ==
    [][last'.op = "MemFreeAgain" => (mem' = mem /\ Regions' = Regions /\ pc' = pc)]_vars

\* The cells that start inside region g's area [start, end).
RegionCells(g) == {c \in Cells : Regions[g].start <= c /\ c < Regions[g].end}

\* C4: with two registered regions A and B, MemAlloc on A and MemFree of a
\* pointer MemAlloc returned for A leave B's table entry and every word of
\* B's area unchanged.
C4_RegionIsolation ==
    [][\A A \in CallerRegions, B \in CallerRegions :
          ( /\ A # B /\ Registered(A) /\ Registered(B)
            /\ \/ \E nb \in Requests : MemAlloc(nb, A)
               \/ \E l \in live : l.region = A /\ MemFree(l) )
          => ( /\ Regions'[B] = Regions[B]
               /\ \A c \in RegionCells(B) : mem'[c] = mem[c] )]_vars

\* C5: each region's free list is strictly ascending by address and no two
\* consecutive nodes a, b are contiguous: a + a.size < b.
Coalesced(g) ==
    \A i \in 1 .. Len(FreeList(g)) - 1 :
        FreeList(g)[i] + mem[FreeList(g)[i]].size * H < FreeList(g)[i + 1]

C5_ListAscendingCoalesced ==
    \A g \in RegionIds : (pc = "run" /\ Registered(g)) => Coalesced(g)

\* A list of two nodes or more has been built by MemFree and is in order.
C5_Witness ==
    /\ pc = "run" /\ last.op = "MemFree"
    /\ \E g \in RegionIds : Registered(g) /\ Len(FreeList(g)) >= 2 /\ Coalesced(g)

RECURSIVE TileWalk(_, _, _, _)
\* The addresses met walking from p, advancing by the size of the word at
\* each address, as long as the address is below end and the size positive.
TileWalk(m, p, end, fuel) ==
    IF ~(p < end) \/ p \notin Cells \/ fuel = 0 THEN {p}
    ELSE IF ~(m[p].size > 0) THEN {p}
    ELSE {p} \cup TileWalk(m, p + m[p].size * H, end, fuel - 1)

\* The end of the free block MemAddRegion installs at start.
SpanEnd(g) ==
    Regions[g].start + SpanUnits(Regions[g].end - Regions[g].start) * H

\* C7: walking from start and advancing by each block's size lands exactly
\* on end.
C7_BlocksTileToEnd ==
    \A g \in RegionIds :
        (pc = "run" /\ Registered(g)) =>
            Regions[g].end \in TileWalk(mem, Regions[g].start, Regions[g].end, Fuel)

\* C7, amended: the walk lands exactly on start + (S/H - 1) units, the end
\* of the span MemAddRegion installed, one header short of end.
C7_BlocksTileToSpanEnd ==
    \A g \in RegionIds :
        (pc = "run" /\ Registered(g)) =>
            SpanEnd(g) \in TileWalk(mem, Regions[g].start, Regions[g].end, Fuel)

\* Three blocks or more tile the span after allocations and a free.
C7_Witness ==
    /\ pc = "run" /\ Registered(0) /\ last.op = "MemFree"
    /\ SpanEnd(0) \in TileWalk(mem, Regions[0].start, Regions[0].end, Fuel)
    /\ Cardinality({c \in TileWalk(mem, Regions[0].start, Regions[0].end, Fuel) :
                      c < SpanEnd(0)}) >= 3

\* The nodes of g's free list that can hold units, the one MemAlloc's scan
\* meets first, and the one lowest in memory.
FitNodes(g, units) == {n \in FreeNodes(g) : mem[n].size >= units}
SelectedNode(g, units) ==
    FreeList(g)[CHOOSE i \in 1 .. Len(FreeList(g)) :
                   /\ mem[FreeList(g)[i]].size >= units
                   /\ \A j \in 1 .. i - 1 : mem[FreeList(g)[j]].size < units]
LowestFit(g, units) ==
    CHOOSE n \in FitNodes(g, units) : \A k \in FitNodes(g, units) : n <= k

\* C8: when no node of the region's free list has size >= units, MemAlloc
\* returns NULL and leaves every word and every region as it was.
C8_FailedAllocChangesNothing ==
    [][\A nb \in Requests, g \in CallerRegions :
          (MemAlloc(nb, g) /\ FitNodes(g, Nelems(nb)) = {})
          => (last'.ptr = NULL /\ mem' = mem /\ Regions' = Regions /\ pc' = "run")]_vars

\* MemAlloc has just failed on a region that still has free nodes.
C8_Witness ==
    /\ pc = "run" /\ last.op = "MemAlloc" /\ last.ptr = NULL
    /\ \E g \in CallerRegions : Registered(g) /\ Regions[g].memleft > 0
                                /\ FreeNodes(g) # {}

\* C9: the block MemAlloc returns is carved from the lowest-address node of
\* the free list with size >= units, and is a function of the list and the
\* size alone: the upper units of that node.
C9_FirstFit ==
    [][\A nb \in Requests, g \in CallerRegions :
          (MemAlloc(nb, g) /\ FitNodes(g, Nelems(nb)) # {})
          => LET a == LowestFit(g, Nelems(nb))
             IN  last'.ptr = a + (mem[a].size - Nelems(nb)) * H + H]_vars

\* MemAlloc has returned a block carved from a later node: a node lower in
\* memory, too small for the request and not the part the split left, is
\* still on the list.
C9_Witness ==
    /\ pc = "run" /\ last.op = "MemAlloc" /\ last.ptr # NULL
    /\ \E g \in CallerRegions : \E n \in FreeNodes(g) :
          /\ n + mem[n].size * H < last.ptr - H
          /\ mem[n].size < mem[last.ptr - H].size

\* C10: when MemAlloc selects a node at a of size s > units, the node stays
\* on the list at a with size s - units, the returned block's header is at
\* a + (s - units) with size units, and the two cover [a, a + s).
C10_SplitKeepsLowerPart ==
    [][\A nb \in Requests, g \in CallerRegions :
          ( /\ MemAlloc(nb, g)
            /\ FitNodes(g, Nelems(nb)) # {}
            /\ mem[SelectedNode(g, Nelems(nb))].size > Nelems(nb) )
          => LET a == SelectedNode(g, Nelems(nb))
                 s == mem[a].size
                 b == last'.ptr - H
             IN  /\ a \in FreeNodes(g)'
                 /\ mem'[a].size = s - Nelems(nb)
                 /\ ~mem'[a].used
                 /\ b = a + (s - Nelems(nb)) * H
                 /\ mem'[b].size = Nelems(nb)
                 /\ mem'[b].used
                 /\ a + mem'[a].size * H = b
                 /\ b + mem'[b].size * H = a + s * H]_vars

\* MemAlloc has just split a node: the used block it returned follows a
\* free-list node that ends where the block starts.
C10_Witness ==
    /\ pc = "run" /\ last.op = "MemAlloc" /\ last.ptr # NULL
    /\ mem[last.ptr - H].used
    /\ \E g \in CallerRegions : \E a \in FreeNodes(g) :
          a + mem[a].size * H = last.ptr - H

----------------------------------------------------------------------------
\* C11: MemAddRegion on a region whose slot is already registered, with the
\* same or another area and size, leaves every region of the table and
\* every word of memory unchanged, wherever in the run it is called.
C11_ReRegistrationIsNoop ==
    [][\A g \in CallerRegions, a \in {AreaB, AreaC} :
          (Registered(g) /\ MemAddRegion(g, a))
          => (mem' = mem /\ Regions' = Regions /\ pc' = pc /\ live' = live)]_vars

\* MemAddRegion has just been called while both regions hold blocks the
\* caller has not freed: both slots were registered before the call.
C11_Witness ==
    /\ pc = "run" /\ last.op = "MemAddRegion"
    /\ \A g \in CallerRegions :
          /\ Registered(g)
          /\ \E l \in live : l.region = g
          /\ Regions[g].memleft < SpanUnits(Regions[g].end - Regions[g].start)

----------------------------------------------------------------------------
\* The blocks MemAlloc returned for region g that were not freed since.
LiveIn(g) == {l \in live : l.region = g}

RECURSIVE SumNelems(_)
SumNelems(ls) ==
    IF ls = {} THEN 0
    ELSE LET l == CHOOSE x \in ls : TRUE
         IN  l.nelems + SumNelems(ls \ {l})

\* C12: MemStatistics reports as usedblocks the number of blocks MemAlloc
\* returned for the region and MemFree was not given yet, as usedbytes H
\* times the sum of their sizes in units, and as largestused/smallestused
\* the largest/smallest of their sizes in bytes.
C12_UsedStatsMatchLive ==
    \A g \in RegionIds :
        (pc = "run" /\ Registered(g) /\ ZeroFilled) =>
            LET st == MemStatistics(mem, Regions, g)
            IN  /\ st.kind = "ok"
                /\ st.usedblocks = Cardinality(LiveIn(g))
                /\ st.usedbytes = H * SumNelems(LiveIn(g))
                /\ LiveIn(g) # {} =>
                      /\ \E l \in LiveIn(g) : st.largestused = l.nelems * H
                      /\ \A l \in LiveIn(g) : l.nelems * H <= st.largestused
                      /\ \E l \in LiveIn(g) : st.smallestused = l.nelems * H
                      /\ \A l \in LiveIn(g) : st.smallestused <= l.nelems * H

----------------------------------------------------------------------------
\* C13: MemStatistics reports smallestfree == 0 for a region with no free
\* block and smallestused == 0 for a region with no used block; MAXBYTES is
\* never stored in either field for the caller, and memleft is reported in
\* bytes, the region's memleft times H.
C13_NoSentinelAndBytes ==
    \A g \in RegionIds :
        (pc = "run" /\ Registered(g) /\ ZeroFilled) =>
            LET st == MemStatistics(mem, Regions, g)
            IN  /\ st.kind = "ok"
                /\ FreeNodes(g) = {} => st.smallestfree = 0
                /\ LiveIn(g) = {} => st.smallestused = 0
                /\ st.smallestfree # MAXBYTES
                /\ st.smallestused # MAXBYTES
                /\ st.memleft = Regions[g].memleft * H

----------------------------------------------------------------------------
\* C14: with two registered regions, the block a successful MemAlloc(nb, R)
\* returns lies inside R's own area: header and nelems units within
\* [R.start, R.end).
C14_BlockInsideOwnRegion ==
    [][\A nb \in Requests, g \in CallerRegions :
          ( /\ \A r \in CallerRegions : Registered(r)
            /\ MemAlloc(nb, g)
            /\ last'.ptr # NULL )
          => ( /\ Regions[g].start <= last'.ptr - H
               /\ last'.ptr - H + Nelems(nb) * H <= Regions[g].end )]_vars

----------------------------------------------------------------------------
\* The bytes of a block of `units` units whose header is at h.
Overlap(h1, u1, h2, u2) == h1 < h2 + u2 * H /\ h2 < h1 + u1 * H

\* C15: with one region and MemFree given only pointers MemAlloc returned
\* and the caller still holds, no two such blocks overlap, none overlaps a
\* node of the free list, and each lies inside [start, end).
C15_LiveBlocksDisjoint ==
    (pc = "run" /\ Registered(0)) =>
        /\ \A l1, l2 \in live :
              l1 # l2 => ~Overlap(l1.p - H, l1.nelems, l2.p - H, l2.nelems)
        /\ \A l \in live : \A n \in FreeNodes(0) :
              ~Overlap(l.p - H, l.nelems, n, mem[n].size)
        /\ \A l \in live :
              /\ Regions[0].start <= l.p - H
              /\ l.p - H + l.nelems * H <= Regions[0].end

\* Two blocks are held, one on each side of a free-list node that MemFree
\* linked, and the list has a second node.
C15_Witness ==
    /\ pc = "run" /\ Registered(0) /\ last.op = "MemFree"
    /\ Len(FreeList(0)) >= 2
    /\ \E l1, l2 \in live : \E n \in FreeNodes(0) :
          l1.p < n /\ n < l2.p

----------------------------------------------------------------------------
\* C16: after every successful MemAlloc, whether the node was split or
\* taken whole, the header of the block returned has used set and size
\* equal to the units asked for.
C16_ReturnedHeaderMarkedUsed ==
    [][\A nb \in Requests, g \in CallerRegions :
          (MemAlloc(nb, g) /\ last'.ptr # NULL)
          => ( /\ mem'[last'.ptr - H].used
               /\ mem'[last'.ptr - H].size = Nelems(nb) )]_vars

----------------------------------------------------------------------------
\* The sequence s without its element x.
SeqWithout(s, x) == SelectSeq(s, LAMBDA y : y # x)

\* C17: when MemAlloc selects a node of exactly the units asked for, the
\* free list afterwards is the list before without that node, in the same
\* order; the region's head changes only when the node was the first.
C17_ExactFitUnlinksOnlyThatNode ==
    [][\A nb \in Requests, g \in CallerRegions :
          ( /\ MemAlloc(nb, g)
            /\ FitNodes(g, Nelems(nb)) # {}
            /\ mem[SelectedNode(g, Nelems(nb))].size = Nelems(nb) )
          => LET a == SelectedNode(g, Nelems(nb))
             IN  /\ FreeList(g)' = SeqWithout(FreeList(g), a)
                 /\ a # Regions[g].free => Regions'[g].free = Regions[g].free]_vars

----------------------------------------------------------------------------
\* C18: when MemAlloc splits a node, at any position of the list, the free
\* list afterwards has the same nodes in the same order with the same next
\* links; only the size of the selected node changes, reduced by the units
\* handed out.
C18_SplitKeepsListLinks ==
    [][\A nb \in Requests, g \in CallerRegions :
          ( /\ MemAlloc(nb, g)
            /\ FitNodes(g, Nelems(nb)) # {}
            /\ mem[SelectedNode(g, Nelems(nb))].size > Nelems(nb) )
          => LET a == SelectedNode(g, Nelems(nb))
             IN  /\ FreeList(g)' = FreeList(g)
                 /\ Regions'[g].free = Regions[g].free
                 /\ \A n \in FreeNodes(g) :
                       /\ mem'[n].next = mem[n].next
                       /\ n # a => mem'[n].size = mem[n].size
                 /\ mem'[a].size = mem[a].size - Nelems(nb)]_vars

----------------------------------------------------------------------------
\* C19: the header of a block MemAlloc(nb, R) returns records region R, and
\* MemFree of that pointer adds the block's size to R's memleft and puts
\* the block on R's free list, under its own header or merged into the
\* node that ends where it starts, and on no other region's list.
C19_FreeReturnsToOwnRegion ==
    [][ /\ \A nb \in Requests, g \in CallerRegions :
              (MemAlloc(nb, g) /\ last'.ptr # NULL)
              => mem'[last'.ptr - H].region = g
        /\ \A l \in live :
              (MemFree(l) /\ mem[l.p - H].used) =>
                  /\ Regions'[l.region].memleft
                       = Regions[l.region].memleft + mem[l.p - H].size
                  /\ \E n \in FreeNodes(l.region)' :
                        n <= l.p - H /\ l.p - H < n + mem'[n].size * H
                  /\ \A g \in RegionIds \ {l.region} :
                        /\ Regions'[g] = Regions[g]
                        /\ FreeNodes(g)' = FreeNodes(g) ]_vars

----------------------------------------------------------------------------
\* C20: when the region's free list is empty and MemFree is given a used
\* block of the region, the call completes and the block is the only node
\* of the list: free points to it, its next is NULL and its used is clear.
C20_FreeIntoEmptyList ==
    [][\A l \in live :
          ( /\ MemFree(l)
            /\ Regions[l.region].free = NULL
            /\ mem[l.p - H].used
            /\ mem[l.p - H].region = l.region )
          => ( /\ pc' = "run"
               /\ Regions'[l.region].free = l.p - H
               /\ mem'[l.p - H].next = NULL
               /\ ~mem'[l.p - H].used )]_vars

----------------------------------------------------------------------------
\* The free-list node of g that ends where the block at f starts, and the
\* one that starts where a block of `units` units at f ends.
PredNodes(g, f) == {n \in FreeNodes(g) : n + mem[n].size * H = f}
SuccNodes(g, f, units) == {n \in FreeNodes(g) : n = f + units * H}

\* C21: MemFree of a used block follows the four-case table.  The list
\* grows by one node when neither neighbour in memory is on the list, keeps
\* its length when exactly one is, and shrinks by one when both are; the
\* node that covers the block afterwards starts at the predecessor (or at
\* the block when there is none), its size is the sum of the sizes merged,
\* and its used flag is clear.
C21_FourCaseTable ==
    [][\A l \in live :
          ( /\ MemFree(l)
            /\ mem[l.p - H].used
            /\ mem[l.p - H].region = l.region )
          => LET g == l.region
                 f == l.p - H
                 pred == PredNodes(g, f)
                 succ == SuccNodes(g, f, mem[f].size)
                 at == IF pred = {} THEN f ELSE CHOOSE n \in pred : TRUE
             IN  /\ pc' = "run"
                 /\ Len(FreeList(g)') = Len(FreeList(g)) + 1
                       - Cardinality(pred) - Cardinality(succ)
                 /\ at \in FreeNodes(g)'
                 /\ ~mem'[at].used
                 /\ mem'[at].size = mem[f].size + SumSizes(mem, pred \cup succ)]_vars

----------------------------------------------------------------------------
\* C22: memleft is the size of the free block MemAddRegion installed minus
\* the units of the blocks MemAlloc returned and MemFree was not given yet.
C22_MemleftTracksLiveBlocks ==
    \A g \in RegionIds :
        (pc = "run" /\ Registered(g) /\ ZeroFilled) =>
            Regions[g].memleft
              = SpanUnits(Regions[g].end - Regions[g].start) - SumNelems(LiveIn(g))

----------------------------------------------------------------------------
\* C23: right after MemFree of a block that MemAlloc(nb, R) returned and
\* the caller still held, MemAlloc(nb, R) succeeds.
C23_FreedMemoryIsAvailableAgain ==
    [][\A l \in live :
          MemFree(l) =>
              /\ pc' = "run"
              /\ \A nb \in Requests :
                    Nelems(nb) = l.nelems =>
                        MemAllocResult(mem', Regions', nb, l.region).ret # NULL]_vars

----------------------------------------------------------------------------
\* C24: MemAddRegion on an unregistered slot with an area of S bytes
\* installs one free block at the area's start of S/H - 1 units (integer
\* division) with used clear and next NULL, and sets start = area,
\* end = area + S, free = area and memleft = S/H - 1; no other word and no
\* other region changes.  MemInit(area, S) does what MemAddRegion(0, area,
\* S) does.
C24_RegisterInstallsOneBlock ==
    [][\A g \in CallerRegions, a \in {AreaB, AreaC} :
          ( /\ ~Registered(g)
            /\ MemAddRegion(g, a) \/ (g = 0 /\ MemInit(a)) )
          => ( /\ Regions'[g] = [start |-> a.base, end |-> a.base + a.bytes,
                                 free |-> a.base, memleft |-> (a.bytes \div H) - 1]
               /\ mem'[a.base].size = (a.bytes \div H) - 1
               /\ ~mem'[a.base].used
               /\ mem'[a.base].next = NULL
               /\ FreeList(g)' = <<a.base>>
               /\ \A c \in Cells \ {a.base} : mem'[c] = mem[c]
               /\ \A r \in RegionIds \ {g} : Regions'[r] = Regions[r]
               /\ pc' = "run" )]_vars

\* Region 1 has just been registered over the area whose size is no
\* multiple of H and that held junk, while region 0, registered before,
\* holds a block.
C24_Witness ==
    /\ pc = "run" /\ last.op = "MemAddRegion"
    /\ Registered(0) /\ LiveIn(0) # {}
    /\ Regions[1] = [start |-> AreaB.base, end |-> AreaB.base + AreaB.bytes,
                     free |-> AreaB.base, memleft |-> SpanUnits(AreaB.bytes)]
    /\ mem[AreaB.base] = [JunkCell EXCEPT !.used = FALSE, !.next = NULL,
                                          !.size = SpanUnits(AreaB.bytes)]
    /\ \A c \in AreaCells(AreaB) \ {AreaB.base} : mem[c] = JunkCell

----------------------------------------------------------------------------
\* The least k with k * H >= nb.
CeilDiv(nb) == CHOOSE k \in 0 .. nb : k * H >= nb /\ (k = 0 \/ (k - 1) * H < nb)

\* C25: for every byte count nb asked for, the units MemAlloc computes are
\* ceil(nb / H) + 1; a block returned has exactly that size, and the bytes
\* after its header, (units - 1) * H, are at least nb.
C25_UnitsAreCeilPlusOne ==
    [][\A nb \in ByteCounts :
          MemAlloc(nb, 0) =>
              /\ Nelems(nb) = CeilDiv(nb) + 1
              /\ last'.ptr # NULL =>
                    /\ mem'[last'.ptr - H].size = CeilDiv(nb) + 1
                    /\ (mem'[last'.ptr - H].size - 1) * H >= nb]_vars

\* MemAlloc has returned a block of the size the largest byte count needs,
\* which is no multiple of H, while the caller holds a block of one unit.
C25_Witness ==
    /\ pc = "run" /\ last.op = "MemAlloc" /\ last.ptr # NULL
    /\ MaxBytes % H # 0
    /\ mem[last.ptr - H].size = CeilDiv(MaxBytes) + 1
    /\ \E l \in live : l.nelems = 1

----------------------------------------------------------------------------
\* The list of g is finite and acyclic: no node is met twice and the last
\* node's next is NULL.
Acyclic(g) ==
    /\ \A i, j \in 1 .. Len(FreeList(g)) : i # j => FreeList(g)[i] # FreeList(g)[j]
    /\ IF FreeList(g) = <<>> THEN Regions[g].free = NULL
       ELSE mem[FreeList(g)[Len(FreeList(g))]].next = NULL

----------------------------------------------------------------------------
\* The headers the walk by address meets inside the span MemAddRegion
\* installed.
Visited(g) ==
    {c \in TileWalk(mem, Regions[g].start, Regions[g].end, Fuel) : c < SpanEnd(g)}

\* C27: the walk by address from start meets only headers of current
\* blocks, none inside a block held or a node of the free list; the
\* headers it finds with used clear are exactly those of the blocks that
\* are not held; and it lands on start + (S/H - 1) units.
C27_WalkMeetsCurrentHeaders ==
    \A g \in RegionIds :
        (pc = "run" /\ Registered(g) /\ ZeroFilled) =>
            /\ SpanEnd(g) \in TileWalk(mem, Regions[g].start, Regions[g].end, Fuel)
            /\ \A l \in LiveIn(g) : l.p - H \in Visited(g)
            /\ \A n \in FreeNodes(g) : n \in Visited(g)
            /\ \A c \in Visited(g) :
                  /\ \A l \in LiveIn(g) :
                        ~(l.p - H < c /\ c < l.p - H + l.nelems * H)
                  /\ \A n \in FreeNodes(g) :
                        ~(n < c /\ c < n + mem[n].size * H)
                  /\ ~mem[c].used <=> ~(\E l \in LiveIn(g) : l.p - H = c)

----------------------------------------------------------------------------
\* C28: a region's free is NULL or an address inside [start, end), and
\* every node reachable from it lies inside [start, end), has used clear
\* and a size of one unit or more.
C28_FreeNodesInsideRegion ==
    \A g \in RegionIds :
        (pc = "run" /\ Registered(g)) =>
            /\ Regions[g].free = NULL
                 \/ (Regions[g].start <= Regions[g].free /\ Regions[g].free < Regions[g].end)
            /\ \A n \in FreeNodes(g) :
                  /\ Regions[g].start <= n
                  /\ n + mem[n].size * H <= Regions[g].end
                  /\ ~mem[n].used
                  /\ mem[n].size >= 1

----------------------------------------------------------------------------
\* C29: MemAlloc on a region of the table that was never registered returns
\* NULL for every byte count and changes no word and no region, whatever
\* was done before on the other regions.
C29_AllocOnUnregisteredRegion ==
    [][\A nb \in Requests, g \in CallerRegions :
          (~Registered(g) /\ MemAlloc(nb, g))
          => ( /\ last'.ptr = NULL
               /\ mem' = mem /\ Regions' = Regions /\ live' = live
               /\ pc' = "run" )]_vars

\* MemAlloc has failed while one of the caller's two regions is not
\* registered, after the other was registered and a MemFree of one of its
\* blocks was charged to the unregistered slot.
C29_Witness ==
    /\ pc = "run" /\ last.op = "MemAlloc" /\ last.ptr = NULL
    /\ \E g, r \in CallerRegions :
          /\ ~Registered(g) /\ Registered(r)
          /\ Regions[g].free = NULL /\ Regions[g].memleft > 0
====
